---- MODULE Spec2Model ----
(***************************************************************************)
(* Model of the retrieval-and-ranking pipeline of src/lib/retrievalAgent.ts *)
(* (seer-app).  The file holds two revisions of the agent: the first one    *)
(* (lines 1-411) has applyBusinessConstraints and rerank, the second one    *)
(* (lines 412-865) has the retrying retrieveCandidateStories and            *)
(* calculateRelevanceScores.  Both are modelled.                            *)
(*                                                                         *)
(* Conventions of the model                                                 *)
(*   - time is counted in whole days; published_at and the clock are        *)
(*     integers (day numbers), so an age in days is now - published_at;     *)
(*   - a document id is a natural number: ids are fixed-width lower-case    *)
(*     UUID strings, for which String.localeCompare orders as the number;   *)
(*   - a title is a sequence of one-character strings, so that              *)
(*     toLowerCase() and trim() are computed, not assumed;                  *)
(*   - source_name "" stands for an absent (falsy) source_name.             *)
(***************************************************************************)
EXTENDS Integers, Sequences, FiniteSets, TLC

VARIABLES
    fStories,   \* applyBusinessConstraints: the argument `stories`
    fNow,       \* applyBusinessConstraints: the clock read at line 107
    fOut,       \* applyBusinessConstraints: the returned list
    fPc,        \* "idle" | "ready" | "done"
    \* retrieveCandidateStories (second revision, lines 475-570)
    rQuery,     \* the argument userEmbedding
    rLimit,     \* the argument limit
    rAttempt,   \* the loop variable attempt
    rAnswers,   \* what the store answered to each call so far, in call order
    rLastError, \* lastError
    rRows,      \* data of the call that succeeded
    rScored,    \* the result of stories.map(...) at line 510, before the filter
    rResult,    \* the returned list
    rPc,        \* "idle" | "loop" | "returned" | "failed"
    \* retrievePersonalizedStories (lines 341-388 and 801-842)
    rev,        \* the revision of the agent that runs: 1 or 2
    pc,         \* "idle" | "encode" | "retrieve" | "constrain" | "dispatch" |
                \* "scoring" | "done" | "failed"
    clock,      \* the clock (one reading for the request)
    constrained,     \* constrainedStories (revision 1)
    batches,         \* the batches of the scoring stage
    batchState,      \* per batch: "idle" | "inflight" | "ok" | "failed"
    batchOut,        \* per batch: what processBatch returned
    allBatchResults, \* rerank: allBatchResults
    results,         \* the returned personalizedStories
    pErr,            \* the error thrown by retrievePersonalizedStories
    filterCalls,     \* number of calls of applyBusinessConstraints
    oracleCalls,     \* number of calls of the scoring oracle (generateObject)
    scorePath,       \* "none" | "normal" | "fallback"
    arrivals,        \* the batches whose call has settled, in the order of settling
    \* two runs over the same candidates and the same oracle scores
    dStage,     \* the stage both runs execute: "filter" | "score" | "idle"
    dDocs,      \* the candidate list both runs receive
    dRankings,  \* per run: the rankings the oracle answers
    dClock,     \* per run: the clock reading
    dOut,       \* per run: the returned list
    dPc,        \* per run: "idle" | "start" | "done"
    \* POST /api/retrieve-feed
    hBody,      \* the body of the request
    hStatus,    \* the status of the response, 0 while there is none
    hInvoked,   \* number of calls of retrievePersonalizedStories
    hPc         \* "idle" | "start" | "pipeline" | "responded"

filterVars == <<fStories, fNow, fOut, fPc>>
retrieveVars == <<rQuery, rLimit, rAttempt, rAnswers, rLastError, rRows, rScored, rResult, rPc>>
pipelineVars == <<rev, pc, clock, constrained, batches, batchState, batchOut,
                  allBatchResults, results, pErr, filterCalls, oracleCalls, scorePath,
                  arrivals>>
detVars == <<dStage, dDocs, dRankings, dClock, dOut, dPc>>
routeVars == <<hBody, hStatus, hInvoked, hPc>>
vars == <<filterVars, retrieveVars, pipelineVars, detVars, routeVars>>

RouteIdle ==
    /\ hBody = [kind |-> "none"]
    /\ hStatus = 0
    /\ hInvoked = 0
    /\ hPc = "idle"

DetIdle ==
    /\ dStage = "idle"
    /\ dDocs = <<>>
    /\ dRankings = << <<>>, <<>> >>
    /\ dClock = <<0, 0>>
    /\ dOut = << <<>>, <<>> >>
    /\ dPc = <<"idle", "idle">>

\* the value of pErr while no error was thrown
NoError == [message |-> "none", cause |-> "none"]

FilterIdle ==
    /\ fStories = <<>>
    /\ fNow = 0
    /\ fOut = <<>>
    /\ fPc = "idle"

PipelineIdle ==
    /\ rev = 0
    /\ pc = "idle"
    /\ clock = 0
    /\ constrained = <<>>
    /\ batches = <<>>
    /\ batchState = <<>>
    /\ batchOut = <<>>
    /\ allBatchResults = <<>>
    /\ results = <<>>
    /\ pErr = NoError
    /\ filterCalls = 0
    /\ oracleCalls = 0
    /\ scorePath = "none"
    /\ arrivals = <<>>

RetrieveIdle ==
    /\ rQuery = <<>>
    /\ rLimit = 0
    /\ rAttempt = 0
    /\ rAnswers = <<>>
    /\ rLastError = "none"
    /\ rRows = <<>>
    /\ rScored = <<>>
    /\ rResult = <<>>
    /\ rPc = "idle"

(***************************************************************************)
(* CONFIG (src/lib/retrievalAgent.ts:9-27 and :420-429)                     *)
(***************************************************************************)
MAX_PER_SOURCE == 10
FRESHNESS_DECAY_DAYS == 14
BLOCKLISTED_SOURCES == {}
\* MATCH_THRESHOLD 0.4, in the unit of similarity scores of the model (1/200)
MATCH_THRESHOLD == 80
\* TOP_K_CANDIDATES of the second revision
TOP_K_CANDIDATES == 35
\* TOP_K_CANDIDATES of the first revision
TOP_K_CANDIDATES_1 == 50
\* MAX_RETRIES of retrieveCandidateStories
MAX_RETRIES == 2
FINAL_RESULTS_LIMIT == 30
RELATIVE_SCORE_MIN == 70
RELATIVE_SCORE_MAX == 100
LLM_RANKING_LIMIT == 30
PARALLEL_BATCH_SIZE == 10
MAX_CONCURRENT_CALLS == 3
RECENCY_BOOST_POINTS == 5
LLM_BATCH_SIZE == 15

(***************************************************************************)
(* Bounds of the model                                                      *)
(***************************************************************************)
\* number of freely chosen documents in an input list
MaxFree == 2
\* number of freely chosen rows in a store response
MaxRows == 2
\* number of items in a freely chosen answer of the scoring oracle
MaxItems == 2
\* number of candidates two compared runs receive
MaxDocs == 2
\* the dimension of the embeddings of the model
EmbeddingDim == 2

Max(a, b) == IF a >= b THEN a ELSE b
Min(a, b) == IF a <= b THEN a ELSE b

(***************************************************************************)
(* Strings                                                                  *)
(***************************************************************************)
\* String.prototype.toLowerCase on one character
LowerChar(c) ==
    CASE c = "G" -> "g"
      [] c = "H" -> "h"
      [] c = "X" -> "x"
      [] OTHER -> c

toLowerCase(t) == [i \in 1..Len(t) |-> LowerChar(t[i])]

\* String.prototype.trim: leading and trailing white space removed
RECURSIVE trimStart(_)
trimStart(t) ==
    IF t # <<>> /\ Head(t) = " " THEN trimStart(Tail(t)) ELSE t

RECURSIVE trimEnd(_)
trimEnd(t) ==
    IF t # <<>> /\ t[Len(t)] = " " THEN trimEnd(SubSeq(t, 1, Len(t) - 1)) ELSE t

trim(t) == trimEnd(trimStart(t))

\* story.title.toLowerCase().trim()
NormalizedTitle(story) == trim(toLowerCase(story.title))

\* story.source_name, without the 'unknown' default
SourceNameNoDefault(story) == story.source_name

\* story.source_name || 'unknown'
SourceName(story) ==
    IF story.source_name = "" THEN "unknown" ELSE story.source_name

\* sourceName.toLowerCase(), on the source names of the model
LowerSource(name) ==
    CASE name = "Blog" -> "blog"
      [] OTHER -> name

(***************************************************************************)
(* applyBusinessConstraints (src/lib/retrievalAgent.ts:103-153)             *)
(***************************************************************************)
\* sourceCount.get(sourceName) || 0
GetCount(sourceCount, name) ==
    IF name \in DOMAIN sourceCount THEN sourceCount[name] ELSE 0

\* sourceCount.set(sourceName, n)
SetCount(sourceCount, name, n) ==
    [k \in (DOMAIN sourceCount) \cup {name} |->
        IF k = name THEN n ELSE sourceCount[k]]

EmptyFilterState ==
    [seenIds |-> {}, seenTitles |-> {}, sourceCount |-> <<>>, kept |-> <<>>]

\* FilterStep without seenTitles.add(normalizedTitle)
FilterStepForgetsTitle(st, story) ==
    IF story.id \in st.seenIds
    THEN st
    ELSE
      LET s1 == [st EXCEPT !.seenIds = @ \cup {story.id}]
          sourceName == IF story.source_name = "" THEN "unknown" ELSE story.source_name
          currentCount == GetCount(s1.sourceCount, sourceName)
      IN
      IF trim(toLowerCase(story.title)) \in s1.seenTitles
      THEN s1
      ELSE IF currentCount >= MAX_PER_SOURCE
           THEN s1
           ELSE [s1 EXCEPT !.sourceCount = SetCount(@, sourceName, currentCount + 1),
                           !.kept = Append(@, story)]

\* one call of the filter callback (lines 110-139); st carries seenIds,
\* seenTitles, sourceCount and the stories kept so far
FilterStep(st, story) ==
    IF story.id \in st.seenIds
    THEN st
    ELSE
      LET s1 == [st EXCEPT !.seenIds = @ \cup {story.id}]
          normalizedTitle == NormalizedTitle(story)
      IN
      IF normalizedTitle \in s1.seenTitles
      THEN s1
      ELSE
        LET s2 == [s1 EXCEPT !.seenTitles = @ \cup {normalizedTitle}]
            sourceName == SourceName(story)
            currentCount == GetCount(s2.sourceCount, sourceName)
        IN
        IF currentCount >= MAX_PER_SOURCE
        THEN s2
        ELSE
          LET s3 == [s2 EXCEPT !.sourceCount =
                        SetCount(@, sourceName, currentCount + 1)]
          IN
          IF LowerSource(sourceName) \in BLOCKLISTED_SOURCES
          THEN s3
          ELSE [s3 EXCEPT !.kept = Append(@, story)]

RECURSIVE FilterFrom(_, _)
FilterFrom(st, stories) ==
    IF stories = <<>> THEN st
    ELSE FilterFrom(FilterStep(st, Head(stories)), Tail(stories))

\* filteredStories (line 110)
filteredStories(stories) == FilterFrom(EmptyFilterState, stories).kept

\* aFreshness / bFreshness (lines 147-148), multiplied by FRESHNESS_DECAY_DAYS:
\* max(0, 1 - age/14) * 14 = max(0, 14 - age)
Freshness(story, now) ==
    Max(0, FRESHNESS_DECAY_DAYS - (now - story.published_at))

\* the comparator of line 151, multiplied by 10 * FRESHNESS_DECAY_DAYS:
\* (bFreshness - aFreshness) * 0.3
FreshnessCompare(a, b, now) == (Freshness(b, now) - Freshness(a, now)) * 3

\* an insertion that places an element before the elements it ties with
RECURSIVE InsertBeforeTies(_, _, _)
InsertBeforeTies(sorted, story, now) ==
    IF sorted = <<>> THEN <<story>>
    ELSE IF (Max(0, FRESHNESS_DECAY_DAYS - (now - story.published_at))
             - Max(0, FRESHNESS_DECAY_DAYS - (now - sorted[Len(sorted)].published_at))) < 0
         THEN Append(sorted, story)
         ELSE Append(InsertBeforeTies(SubSeq(sorted, 1, Len(sorted) - 1), story, now),
                     sorted[Len(sorted)])

\* Array.prototype.sort is stable: an element is placed after every element
\* already placed that the comparator does not order after it
RECURSIVE InsertByFreshness(_, _, _)
InsertByFreshness(sorted, story, now) ==
    IF sorted = <<>> THEN <<story>>
    ELSE IF FreshnessCompare(sorted[Len(sorted)], story, now) <= 0
         THEN Append(sorted, story)
         ELSE Append(InsertByFreshness(SubSeq(sorted, 1, Len(sorted) - 1), story, now),
                     sorted[Len(sorted)])

RECURSIVE SortByFreshness(_, _)
SortByFreshness(stories, now) ==
    IF stories = <<>> THEN <<>>
    ELSE InsertByFreshness(
             SortByFreshness(SubSeq(stories, 1, Len(stories) - 1), now),
             stories[Len(stories)], now)

applyBusinessConstraints(stories, now) ==
    SortByFreshness(filteredStories(stories), now)

(***************************************************************************)
(* Inputs of the Constraint Filter                                          *)
(***************************************************************************)
Titles == { <<"G">>, <<" ", "g">>, <<"X">> }
Sources == { "", "Blog" }
Ids == { 1, 2 }
\* published today, or 13 days ago
PublishedDays == { 0, 0 - 13 }
Clock == { 0, 1 }

FreeStories ==
    [id : Ids, title : Titles, source_name : Sources,
     published_at : PublishedDays]

\* a run of n documents with distinct ids and titles and one source, the
\* later ones published outside the decay window
FillerStory(i, source) ==
    [id |-> 100 + i, title |-> [j \in 1..i |-> "x"], source_name |-> source,
     published_at |-> 0 - (i + 5)]
Filler(n, source) == [i \in 1..n |-> FillerStory(i, source)]
FillerLengths == { 0, 1, MAX_PER_SOURCE, MAX_PER_SOURCE + 1 }

RECURSIVE SeqsUpTo(_, _)
SeqsUpTo(S, n) ==
    IF n = 0 THEN { <<>> }
    ELSE LET shorter == SeqsUpTo(S, n - 1)
         IN shorter \cup { Append(s, x) : s \in { t \in shorter : Len(t) = n - 1 }, x \in S }

(***************************************************************************)
(* The Constraint Filter as a state machine: an input is drawn, the filter  *)
(* is applied once                                                          *)
(***************************************************************************)
InitFilter ==
    /\ \E free \in SeqsUpTo(FreeStories, MaxFree), n \in FillerLengths,
          fillerFirst \in BOOLEAN :
          /\ (n = 0 => fillerFirst)
          /\ fStories = IF fillerFirst THEN Filler(n, "unknown") \o free
                                       ELSE free \o Filler(n, "unknown")
    /\ fNow \in Clock
    /\ fOut = <<>>
    /\ fPc = "ready"
    /\ RetrieveIdle
    /\ PipelineIdle
    /\ DetIdle
    /\ RouteIdle

ApplyFilter ==
    /\ fPc = "ready"
    /\ fOut' = applyBusinessConstraints(fStories, fNow)
    /\ fPc' = "done"
    /\ UNCHANGED <<fStories, fNow>>
    /\ UNCHANGED <<retrieveVars, pipelineVars, detVars, routeVars>>

NextFilter == ApplyFilter

SpecFilter == InitFilter /\ [][NextFilter]_vars


(***************************************************************************)
(* Numbers.  A JavaScript number is finite, NaN or an infinity; the         *)
(* arithmetic below is the IEEE arithmetic of these on exact values.        *)
(***************************************************************************)
Fin(v) == [kind |-> "fin", v |-> v]
NaN == [kind |-> "nan", v |-> 0]
Infinity == [kind |-> "inf", v |-> 1]
NegInfinity == [kind |-> "inf", v |-> 0 - 1]

SignOf(a) == IF a.v > 0 THEN 1 ELSE IF a.v < 0 THEN 0 - 1 ELSE 0

\* a * b
FMul(a, b) ==
    IF a.kind = "nan" \/ b.kind = "nan" THEN NaN
    ELSE IF a.kind = "fin" /\ b.kind = "fin" THEN Fin(a.v * b.v)
    ELSE IF SignOf(a) * SignOf(b) = 0 THEN NaN
    ELSE [kind |-> "inf", v |-> SignOf(a) * SignOf(b)]

\* a + b
FAdd(a, b) ==
    IF a.kind = "nan" \/ b.kind = "nan" THEN NaN
    ELSE IF a.kind = "fin" /\ b.kind = "fin" THEN Fin(a.v + b.v)
    ELSE IF a.kind = "inf" /\ b.kind = "inf"
         THEN (IF a.v = b.v THEN a ELSE NaN)
    ELSE IF a.kind = "inf" THEN a ELSE b

\* isNaN(x) for a number x
IsNaN(a) == a.kind = "nan"

\* parseFloat(val.trim()) on the pieces a string embedding splits into
parseFloat(piece) ==
    CASE piece = "0" -> Fin(0)
      [] piece = "1" -> Fin(1)
      [] piece = " 1" -> Fin(1)
      [] piece = "2" -> Fin(2)
      [] piece = "1x" -> Fin(1)
      [] piece = "Infinity" -> Infinity
      [] OTHER -> NaN

(***************************************************************************)
(* calculateCosineSimilarity (src/lib/retrievalAgent.ts:575-603)            *)
(* A finite similarity is kept in units of 1/200, rounded down: threshold   *)
(* comparisons (0.4 = 80 units) and Math.round(similarity * 100) are exact  *)
(* on it.                                                                   *)
(***************************************************************************)
SIM_ONE == 200

RECURSIVE DotProduct(_, _)
DotProduct(vecA, vecB) ==
    IF vecA = <<>> THEN Fin(0)
    ELSE FAdd(FMul(Head(vecA), Head(vecB)), DotProduct(Tail(vecA), Tail(vecB)))

\* the largest u with u / 200 <= dot / sqrt(normA2 * normB2), for dot >= 0
\* (at most 200, by the Cauchy-Schwarz inequality)
QuotientUnits(dot, normProduct2) ==
    CHOOSE u \in 0..SIM_ONE :
        /\ u * u * normProduct2 <= SIM_ONE * SIM_ONE * dot * dot
        /\ (u + 1) * (u + 1) * normProduct2 > SIM_ONE * SIM_ONE * dot * dot

calculateCosineSimilarity(vecA, vecB) ==
    IF Len(vecA) # Len(vecB) THEN Fin(0)
    ELSE
      LET dotProduct == DotProduct(vecA, vecB)
          normA2 == DotProduct(vecA, vecA)
          normB2 == DotProduct(vecB, vecB)
      IN
      \* normA === 0 || normB === 0
      IF (normA2.kind = "fin" /\ normA2.v = 0) \/ (normB2.kind = "fin" /\ normB2.v = 0)
      THEN Fin(0)
      ELSE IF dotProduct.kind = "nan" \/ normA2.kind = "nan" \/ normB2.kind = "nan"
      THEN NaN
      ELSE IF normA2.kind = "inf" \/ normB2.kind = "inf"
      THEN (IF dotProduct.kind = "inf" THEN NaN ELSE Fin(0))
      ELSE IF dotProduct.v >= 0
           THEN Fin(QuotientUnits(dotProduct.v, normA2.v * normB2.v))
           ELSE Fin(0 - QuotientUnits(0 - dotProduct.v, normA2.v * normB2.v))

\* Math.max(0, Math.min(1, similarity))
ClampSimilarity(similarity) ==
    IF similarity.kind = "nan" THEN NaN
    ELSE IF similarity.kind = "inf"
         THEN (IF similarity.v > 0 THEN Fin(SIM_ONE) ELSE Fin(0))
    ELSE Fin(Max(0, Min(SIM_ONE, similarity.v)))

(***************************************************************************)
(* retrieveCandidateStories, second revision (lines 475-570)                *)
(* story.embedding is absent, a string (given by the pieces that            *)
(* replace(/[\[\]]/g, '').split(',') yields), an array of numbers, or a     *)
(* value of another type.                                                   *)
(***************************************************************************)
WithSimilarity(story, score) ==
    [id |-> story.id, title |-> story.title, source_name |-> story.source_name,
     published_at |-> story.published_at, embedding |-> story.embedding,
     similarity_score |-> score]

\* some(isNaN) that also rejects the infinities
SomeNotFinite(storyEmbedding) ==
    \E i \in 1..Len(storyEmbedding) : storyEmbedding[i].kind # "fin"

\* storyEmbedding.some(isNaN) (line 536)
SomeIsNaN(storyEmbedding) ==
    \E i \in 1..Len(storyEmbedding) : IsNaN(storyEmbedding[i])

\* the callback of stories.map (lines 510-546)
ScoreStory(userEmbedding, story) ==
    IF story.embedding.type = "absent"
    THEN WithSimilarity(story, Fin(0))
    ELSE IF story.embedding.type \notin {"string", "array"}
    THEN WithSimilarity(story, Fin(0))
    ELSE
      LET storyEmbedding ==
            IF story.embedding.type = "string"
            THEN [i \in 1..Len(story.embedding.pieces) |->
                    parseFloat(story.embedding.pieces[i])]
            ELSE story.embedding.vals
      IN
      IF Len(storyEmbedding) = 0 \/ SomeIsNaN(storyEmbedding)
      THEN WithSimilarity(story, Fin(0))
      ELSE WithSimilarity(story,
               ClampSimilarity(calculateCosineSimilarity(userEmbedding, storyEmbedding)))

storiesWithSimilarityMap(userEmbedding, stories) ==
    [i \in 1..Len(stories) |-> ScoreStory(userEmbedding, stories[i])]

\* a filter that keeps every story
PassesAlways(story) == TRUE

\* story.similarity_score >= CONFIG.MATCH_THRESHOLD (NaN >= x is false)
PassesThreshold(story) ==
    /\ story.similarity_score.kind = "fin"
    /\ story.similarity_score.v >= MATCH_THRESHOLD

RECURSIVE SelectSeq2(_, _)
SelectSeq2(seq, keep) ==
    IF seq = <<>> THEN <<>>
    ELSE IF keep[1] THEN <<Head(seq)>> \o SelectSeq2(Tail(seq), Tail(keep))
         ELSE SelectSeq2(Tail(seq), Tail(keep))

\* Array.prototype.slice(0, n)
SliceTo(seq, n) == SubSeq(seq, 1, Min(n, Len(seq)))

\* .filter(...).slice(0, limit) (lines 547-548)
ThresholdSurvivors(scored, limit) ==
    SliceTo(SelectSeq2(scored, [i \in 1..Len(scored) |-> PassesThreshold(scored[i])]),
            limit)

\* the store answers the call of the current attempt with data (null data
\* is the empty list: data || [])
StoreReturnsData(rows) ==
    /\ rPc = "loop"
    /\ rAnswers' = Append(rAnswers, "data")
    /\ rRows' = rows
    /\ rScored' = storiesWithSimilarityMap(rQuery, rows)
    /\ rResult' = ThresholdSurvivors(storiesWithSimilarityMap(rQuery, rows), rLimit)
    /\ rPc' = "returned"
    /\ UNCHANGED <<rQuery, rLimit, rAttempt, rLastError>>

\* AttemptFailed with a loop that falls through to a return of the empty list
AttemptFailedReturnsEmpty(errorCode) ==
    /\ rLastError' = errorCode
    /\ IF rAttempt >= MAX_RETRIES
       THEN /\ rAttempt' = rAttempt
            /\ rPc' = "returned"
       ELSE /\ rAttempt' = rAttempt + 1
            /\ rPc' = "loop"

\* an attempt that ended without a result: the timeout branch continues the
\* loop (line 500); any other error is thrown at line 503 inside the try
\* block and caught at line 553, where the loop goes on unless this was the
\* last attempt; after the loop the function throws (line 569)
AttemptFailed(errorCode) ==
    /\ rLastError' = errorCode
    /\ IF errorCode = "57014" /\ rAttempt < MAX_RETRIES
       THEN /\ rAttempt' = rAttempt + 1
            /\ rPc' = "loop"
       ELSE IF rAttempt >= MAX_RETRIES
            THEN /\ rAttempt' = rAttempt
                 /\ rPc' = "failed"
            ELSE /\ rAttempt' = rAttempt + 1
                 /\ rPc' = "loop"

\* the store answers the call with { error } (line 492)
StoreReturnsError(errorCode) ==
    /\ rPc = "loop"
    /\ rAnswers' = Append(rAnswers, errorCode)
    /\ AttemptFailed(errorCode)
    /\ UNCHANGED <<rQuery, rLimit, rRows, rScored, rResult>>

\* supabase.rpc rejects (a network failure): caught at line 553
StoreCallThrows ==
    /\ rPc = "loop"
    /\ rAnswers' = Append(rAnswers, "thrown")
    /\ AttemptFailed("thrown")
    /\ UNCHANGED <<rQuery, rLimit, rRows, rScored, rResult>>

(***************************************************************************)
(* Store responses and query vectors of the retrieval model                 *)
(***************************************************************************)
Embeddings ==
    { [type |-> "absent"],
      [type |-> "object"],
      [type |-> "array", vals |-> <<Fin(1), Fin(0)>>],
      [type |-> "array", vals |-> <<Fin(1), Fin(2)>>],
      [type |-> "array", vals |-> <<Fin(0 - 1), Fin(0)>>],
      [type |-> "array", vals |-> <<Fin(1), Fin(0), Fin(0)>>],
      [type |-> "array", vals |-> <<NaN, Fin(1)>>],
      [type |-> "array", vals |-> <<>>],
      [type |-> "string", pieces |-> <<" 1", "1">>],
      [type |-> "string", pieces |-> <<"1", "2", "1">>],
      [type |-> "string", pieces |-> <<"abc">>],
      [type |-> "string", pieces |-> <<"1", "">>],
      [type |-> "string", pieces |-> <<"Infinity", "1">>] }

QueryVectors ==
    { <<Fin(1), Fin(0)>>, <<Fin(1), Fin(1)>>, <<Fin(0), Fin(0)>> }

ErrorCodes == { "57014", "42883" }

\* the row at position i of a response
Row(i, embedding) ==
    [id |-> i, title |-> [j \in 1..i |-> "x"], source_name |-> "Blog",
     published_at |-> 0 - i, embedding |-> embedding]

RowsOf(embeddings) == [i \in 1..Len(embeddings) |-> Row(i, embeddings[i])]

\* a response longer than TOP_K_CANDIDATES whose rows all pass the threshold
LongResponse ==
    [i \in 1..(TOP_K_CANDIDATES + 1) |->
        Row(i, [type |-> "array", vals |-> <<Fin(1), Fin(1)>>])]

RetrieveResponses ==
    { RowsOf(e) : e \in SeqsUpTo(Embeddings, MaxRows) } \cup { LongResponse }

\* the values of the argument limit: a count of documents
Limits == { 0, 1, TOP_K_CANDIDATES }

InitRetrieve ==
    /\ rQuery \in QueryVectors
    /\ rLimit \in Limits
    /\ rAttempt = 1
    /\ rAnswers = <<>>
    /\ rLastError = "none"
    /\ rRows = <<>>
    /\ rScored = <<>>
    /\ rResult = <<>>
    /\ rPc = "loop"
    /\ FilterIdle
    /\ PipelineIdle
    /\ DetIdle
    /\ RouteIdle

NextRetrieve ==
    \/ (\E rows \in RetrieveResponses : StoreReturnsData(rows))
         /\ UNCHANGED <<filterVars, pipelineVars, detVars, routeVars>>
    \/ (\E errorCode \in ErrorCodes : StoreReturnsError(errorCode))
         /\ UNCHANGED <<filterVars, pipelineVars, detVars, routeVars>>
    \/ StoreCallThrows /\ UNCHANGED <<filterVars, pipelineVars, detVars, routeVars>>

SpecRetrieve == InitRetrieve /\ [][NextRetrieve]_vars

\* every store call is answered
FairSpecRetrieve == SpecRetrieve /\ WF_vars(NextRetrieve)

(***************************************************************************)
(* Helpers of the scoring stage                                             *)
(***************************************************************************)
\* chunkArray (lines 158-164) and the loop of lines 678-681
chunkArray(array, chunkSize) ==
    [k \in 1..((Len(array) + chunkSize - 1) \div chunkSize) |->
        SubSeq(array, (k - 1) * chunkSize + 1, Min(k * chunkSize, Len(array)))]

\* Array.prototype.flat
RECURSIVE Flat(_)
Flat(seqs) == IF seqs = <<>> THEN <<>> ELSE Head(seqs) \o Flat(Tail(seqs))

\* new Map(stories.map(s => [s.id, s])).get(id): the position of the last
\* story with this id (a later entry replaces an earlier one), 0 when absent
MapGet(stories, id) ==
    LET at == { i \in 1..Len(stories) : stories[i].id = id }
    IN IF at = {} THEN 0 ELSE CHOOSE i \in at : \A j \in at : j <= i

\* a.story.id.localeCompare(b.story.id)
localeCompare(idA, idB) ==
    IF idA < idB THEN 0 - 1 ELSE IF idA > idB THEN 1 ELSE 0

(***************************************************************************)
(* rerank, first revision (lines 237-336)                                   *)
(***************************************************************************)
\* processBatch, lines 213-231: rankings mapped back to the stories of the
\* batch, unknown ids dropped
RECURSIVE MapRankingsToBatch(_, _)
MapRankingsToBatch(stories, rankings) ==
    IF rankings = <<>> THEN <<>>
    ELSE
      LET k == MapGet(stories, Head(rankings).story_id)
          rest == MapRankingsToBatch(stories, Tail(rankings))
      IN IF k = 0 THEN rest
         ELSE <<[story |-> stories[k],
                 original_relevance_score |-> Head(rankings).relevance_score]>> \o rest

\* the filter of lines 281-289: the first result of each story is kept
RECURSIVE UniqueByStory(_, _)
UniqueByStory(batchResults, seenStoryIds) ==
    IF batchResults = <<>> THEN <<>>
    ELSE IF Head(batchResults).story.id \in seenStoryIds
         THEN UniqueByStory(Tail(batchResults), seenStoryIds)
         ELSE <<Head(batchResults)>>
                \o UniqueByStory(Tail(batchResults),
                                 seenStoryIds \cup {Head(batchResults).story.id})

\* the stable sort of line 290: b.original_relevance_score - a.original_relevance_score
RECURSIVE InsertByOriginalScore(_, _)
InsertByOriginalScore(sorted, x) ==
    IF sorted = <<>> THEN <<x>>
    ELSE IF x.original_relevance_score - sorted[Len(sorted)].original_relevance_score <= 0
         THEN Append(sorted, x)
         ELSE Append(InsertByOriginalScore(SubSeq(sorted, 1, Len(sorted) - 1), x),
                     sorted[Len(sorted)])

RECURSIVE SortByOriginalScore(_)
SortByOriginalScore(seq) ==
    IF seq = <<>> THEN <<>>
    ELSE InsertByOriginalScore(SortByOriginalScore(SubSeq(seq, 1, Len(seq) - 1)),
                               seq[Len(seq)])

\* products of two numbers below 2^30, as four digits of base 2^15 (most
\* significant first), and their comparison
Base15 == 2^15
BigProduct(a, b) ==
    LET a1 == a \div Base15
        a0 == a % Base15
        b1 == b \div Base15
        b0 == b % Base15
        p0 == a0 * b0
        t1 == a1 * b0 + a0 * b1 + (p0 \div Base15)
        t2 == a1 * b1 + (t1 \div Base15)
    IN <<t2 \div Base15, t2 % Base15, t1 % Base15, p0 % Base15>>

BigLeq(x, y) ==
    \/ x = y
    \/ \E k \in 1..4 : x[k] < y[k] /\ \A j \in 1..(k - 1) : x[j] = y[j]

\* Math.round(MAX - Math.pow(index / denominator, 0.8) * (MAX - MIN)), lines
\* 297-301 and 322-326.  With range = MAX - MIN and x = range * (i/d)^0.8 the
\* result is MAX - m for the least integer m with x <= m + 1/2, that is with
\* (2 range)^5 * i^4 <= (2m + 1)^5 * d^4.
ScoreRange == RELATIVE_SCORE_MAX - RELATIVE_SCORE_MIN
CurveAtMost(index, denominator, m) ==
    BigLeq(BigProduct((2 * ScoreRange)^5, index^4),
           BigProduct((2 * m + 1)^5, denominator^4))

RelativeScoreTable ==
    [denominator \in 1..(FINAL_RESULTS_LIMIT - 1) |->
        [index \in 0..(FINAL_RESULTS_LIMIT - 1) |->
            IF index > denominator THEN RELATIVE_SCORE_MIN
            ELSE RELATIVE_SCORE_MAX -
                   (CHOOSE m \in 0..ScoreRange :
                       /\ CurveAtMost(index, denominator, m)
                       /\ (m = 0 \/ ~CurveAtMost(index, denominator, m - 1)))]]

relativeScore(index, denominator) == RelativeScoreTable[denominator][index]

\* lines 279-309: unique, sorted by the oracle's score, cut to the final size,
\* scored by position
rerankRanked(batchResults) ==
    LET llmRankedResults ==
          SliceTo(SortByOriginalScore(UniqueByStory(batchResults, {})),
                  FINAL_RESULTS_LIMIT)
    IN [k \in 1..Len(llmRankedResults) |->
          [story |-> llmRankedResults[k].story,
           relevance_score |->
             relativeScore(k - 1, Max(1, Len(llmRankedResults) - 1))]]

\* a fallback whose scores grow with the position
rerankFallbackAscending(stories) ==
    LET fallbackStories == SliceTo(stories, LLM_RANKING_LIMIT)
    IN [k \in 1..Len(fallbackStories) |->
          [story |-> fallbackStories[k],
           relevance_score |-> relativeScore(FINAL_RESULTS_LIMIT - k, FINAL_RESULTS_LIMIT - 1)]]

\* lines 319-334: the fallback of rerank
rerankFallback(stories) ==
    LET fallbackStories == SliceTo(stories, LLM_RANKING_LIMIT)
    IN [k \in 1..Len(fallbackStories) |->
          [story |-> fallbackStories[k],
           relevance_score |-> relativeScore(k - 1, FINAL_RESULTS_LIMIT - 1)]]

(***************************************************************************)
(* calculateRelevanceScores, second revision (lines 672-783)                *)
(***************************************************************************)
\* Math.round(Math.max(0, (1 - ageInDays / 14) * 5)), lines 713-717
recencyBoost(story, now) ==
    LET scaled == (FRESHNESS_DECAY_DAYS - (now - story.published_at))
                    * RECENCY_BOOST_POINTS
    IN IF scaled <= 0 THEN 0
       ELSE (2 * scaled + FRESHNESS_DECAY_DAYS) \div (2 * FRESHNESS_DECAY_DAYS)

\* Math.max(1, Math.min(100, score))
ClampScore(score) == Max(1, Min(100, score))

\* lines 699-733: the rankings with a story_id that is not empty (id 0 stands
\* for the empty string), mapped to the stories of the request
RECURSIVE scoredStories(_, _, _)
scoredStories(stories, allRankings, now) ==
    IF allRankings = <<>> THEN <<>>
    ELSE
      LET ranking == Head(allRankings)
          k == MapGet(stories, ranking.story_id)
          rest == scoredStories(stories, Tail(allRankings), now)
      IN IF ranking.story_id = 0 \/ k = 0 THEN rest
         ELSE <<[story |-> stories[k],
                 relevance_score |->
                   ClampScore(ranking.relevance_score + recencyBoost(stories[k], now))]>>
              \o rest

\* a comparator without the tie-break by id
CompareScoredNoTieBreak(a, b) == b.relevance_score - a.relevance_score

\* a comparator that orders by ascending score
CompareScoredAscending(a, b) ==
    LET scoreDiff == a.relevance_score - b.relevance_score
    IN IF scoreDiff # 0 THEN scoreDiff ELSE localeCompare(a.story.id, b.story.id)

\* the comparator of lines 737-740 and 775-778
CompareScored(a, b) ==
    LET scoreDiff == b.relevance_score - a.relevance_score
    IN IF scoreDiff # 0 THEN scoreDiff ELSE localeCompare(a.story.id, b.story.id)

RECURSIVE InsertScored(_, _)
InsertScored(sorted, x) ==
    IF sorted = <<>> THEN <<x>>
    ELSE IF CompareScored(sorted[Len(sorted)], x) <= 0
         THEN Append(sorted, x)
         ELSE Append(InsertScored(SubSeq(sorted, 1, Len(sorted) - 1), x),
                     sorted[Len(sorted)])

RECURSIVE SortScored(_)
SortScored(seq) ==
    IF seq = <<>> THEN <<>>
    ELSE InsertScored(SortScored(SubSeq(seq, 1, Len(seq) - 1)), seq[Len(seq)])

\* lines 698-756: the normal path after Promise.all
sortedStories(stories, batchResults, now) ==
    SliceTo(SortScored(scoredStories(stories, Flat(batchResults), now)),
            FINAL_RESULTS_LIMIT)

\* Math.round((story.similarity_score || 0.5) * 100), line 768; a similarity
\* of 0 and NaN are falsy
similarityScore(story) ==
    IF story.similarity_score.kind # "fin" \/ story.similarity_score.v = 0
    THEN 50
    ELSE (story.similarity_score.v + 1) \div 2

\* lines 761-781: the fallback of calculateRelevanceScores
fallbackStories(stories, now) ==
    SliceTo(SortScored([k \in 1..Len(stories) |->
                          [story |-> stories[k],
                           relevance_score |->
                             ClampScore(similarityScore(stories[k])
                                          + recencyBoost(stories[k], now))]]),
            FINAL_RESULTS_LIMIT)

(***************************************************************************)
(* retrievePersonalizedStories (lines 341-388 and 801-842)                  *)
(***************************************************************************)
\* getRelativeTime (lines 393-408, 847-862) on whole days
getRelativeTime(publishedAt, now) ==
    LET diffInDays == now - publishedAt
    IN IF diffInDays > 0
       THEN [n |-> diffInDays, unit |-> IF diffInDays > 1 THEN "days" ELSE "day"]
       ELSE [n |-> 1, unit |-> "minutes"]

\* the transformation to PersonalizedStory (lines 369-379, 825-833)
personalizedStories(rankedResults, now) ==
    [k \in 1..Len(rankedResults) |->
        [story |-> rankedResults[k].story,
         relevance_score |-> rankedResults[k].relevance_score,
         time |-> getRelativeTime(rankedResults[k].story.published_at, now)]]

\* an error that does not carry the message of its cause
PipelineErrorWithoutCause(message) ==
    [message |-> "Failed to retrieve personalized stories", cause |-> "Unknown error"]

\* new Error(`Failed to retrieve personalized stories: ${error.message}`)
PipelineError(message) ==
    [message |-> "Failed to retrieve personalized stories", cause |-> message]

\* generateUserEmbedding returns the oracle's vector (lines 50-66, 448-464)
EmbeddingReturned(embedding) ==
    /\ pc = "encode"
    /\ rQuery' = embedding
    /\ rLimit' = IF rev = 1 THEN TOP_K_CANDIDATES_1 ELSE TOP_K_CANDIDATES
    /\ rAttempt' = 1
    /\ rPc' = "loop"
    /\ pc' = "retrieve"
    /\ UNCHANGED <<rAnswers, rLastError, rRows, rScored, rResult>>
    /\ UNCHANGED <<rev, clock, constrained, batches, batchState, batchOut,
                   allBatchResults, results, pErr, filterCalls, oracleCalls, scorePath, arrivals>>

\* embed() rejects: generateUserEmbedding throws (lines 67-70, 465-468) and
\* the pipeline wraps the error (lines 384-387, 838-841)
EmbeddingFailed ==
    /\ pc = "encode"
    /\ pc' = "failed"
    /\ pErr' = PipelineError("Failed to generate user embedding")
    /\ UNCHANGED retrieveVars
    /\ UNCHANGED <<rev, clock, constrained, batches, batchState, batchOut,
                   allBatchResults, results, filterCalls, oracleCalls, scorePath, arrivals>>

\* retrieveCandidateStories of the first revision (lines 76-98): one call,
\* data || [] returned as it is
StoreReturnsDataOnce(rows) ==
    /\ rev = 1
    /\ pc = "retrieve"
    /\ rPc = "loop"
    /\ rAnswers' = Append(rAnswers, "data")
    /\ rRows' = rows
    /\ rResult' = rows
    /\ rPc' = "returned"
    /\ UNCHANGED <<rQuery, rLimit, rAttempt, rLastError, rScored>>
    /\ UNCHANGED pipelineVars

\* the first revision's call answers { error } or rejects: lines 87-97
StoreFailsOnce(errorCode) ==
    /\ rev = 1
    /\ pc = "retrieve"
    /\ rPc = "loop"
    /\ rAnswers' = Append(rAnswers, errorCode)
    /\ rLastError' = errorCode
    /\ rPc' = "failed"
    /\ UNCHANGED <<rQuery, rLimit, rAttempt, rRows, rScored, rResult>>
    /\ UNCHANGED pipelineVars

\* a pipeline without the early return for an empty candidate list
AfterRetrieveNoEmptyCheck ==
    /\ pc = "retrieve"
    /\ rPc \in {"returned", "failed"}
    /\ IF rPc = "failed"
       THEN /\ pc' = "failed"
            /\ pErr' = PipelineError("Failed to retrieve candidate stories")
       ELSE /\ pc' = IF rev = 1 THEN "constrain" ELSE "dispatch"
            /\ pErr' = pErr
    /\ UNCHANGED retrieveVars
    /\ UNCHANGED <<rev, clock, constrained, batches, batchState, batchOut,
                   allBatchResults, results, filterCalls, oracleCalls, scorePath, arrivals>>

\* the pipeline after `await retrieveCandidateStories` (lines 354-359,
\* 814-819, and the catch of lines 384-387, 838-841)
AfterRetrieve ==
    /\ pc = "retrieve"
    /\ rPc \in {"returned", "failed"}
    /\ IF rPc = "failed"
       THEN /\ pc' = "failed"
            /\ pErr' = PipelineError(
                          IF rev = 1 THEN "Failed to retrieve candidate stories"
                          ELSE "Failed to retrieve candidate stories after retries")
            /\ results' = results
       ELSE IF Len(rResult) = 0
       THEN /\ pc' = "done"
            /\ results' = <<>>
            /\ pErr' = pErr
       ELSE /\ pc' = IF rev = 1 THEN "constrain" ELSE "dispatch"
            /\ results' = results
            /\ pErr' = pErr
    /\ UNCHANGED retrieveVars
    /\ UNCHANGED <<rev, clock, constrained, batches, batchState, batchOut,
                   allBatchResults, filterCalls, oracleCalls, scorePath, arrivals>>

\* Step 3 of the first revision (line 362)
Constrain ==
    /\ rev = 1
    /\ pc = "constrain"
    /\ constrained' = applyBusinessConstraints(rResult, clock)
    /\ filterCalls' = filterCalls + 1
    /\ pc' = "dispatch"
    /\ UNCHANGED retrieveVars
    /\ UNCHANGED <<rev, clock, batches, batchState, batchOut, allBatchResults,
                   results, pErr, oracleCalls, scorePath, arrivals>>

\* the batches whose oracle call is in flight
InFlight == { b \in 1..Len(batchState) : batchState[b] = "inflight" }

\* the next group of rerank's loop (lines 254-261): the first
\* MAX_CONCURRENT_CALLS batches that were not dispatched yet
NextGroup(states) ==
    { b \in 1..Len(states) :
        /\ states[b] = "idle"
        /\ Cardinality({ c \in 1..(b - 1) : states[c] = "idle" }) < MAX_CONCURRENT_CALLS }

Dispatched(states, group) ==
    [b \in 1..Len(states) |-> IF b \in group THEN "inflight" ELSE states[b]]

\* the scoring stage starts: rerank (lines 243-261) cuts the list to
\* LLM_RANKING_LIMIT, splits it and dispatches the first group of batches;
\* calculateRelevanceScores (lines 678-694) splits the list and dispatches
\* every batch in one batches.map
StartScoring ==
    /\ pc = "dispatch"
    /\ LET newBatches ==
             IF rev = 1
             THEN chunkArray(SliceTo(constrained, LLM_RANKING_LIMIT), PARALLEL_BATCH_SIZE)
             ELSE chunkArray(rResult, LLM_BATCH_SIZE)
           idle == [b \in 1..Len(newBatches) |-> "idle"]
           group == IF rev = 1 THEN NextGroup(idle) ELSE 1..Len(newBatches)
       IN /\ batches' = newBatches
          /\ batchState' = Dispatched(idle, group)
          /\ batchOut' = [b \in 1..Len(newBatches) |-> <<>>]
          /\ oracleCalls' = oracleCalls + Cardinality(group)
          /\ IF newBatches = <<>>
             THEN /\ results' = personalizedStories(
                                   IF rev = 1 THEN rerankRanked(<<>>)
                                   ELSE sortedStories(rResult, <<>>, clock), clock)
                  /\ pc' = "done"
             ELSE /\ results' = results
                  /\ pc' = "scoring"
    /\ scorePath' = "normal"
    /\ allBatchResults' = <<>>
    /\ arrivals' = <<>>
    /\ UNCHANGED retrieveVars
    /\ UNCHANGED <<rev, clock, constrained, pErr, filterCalls>>

\* the value in arrival order: the k-th element belongs to the k-th batch that settled
InArrivalOrder(settled, arrived) ==
    [k \in 1..Len(arrived) |-> settled[arrived[k]]]

\* await Promise.all(batchPromises) (lines 263, 696): the values of the
\* promises in the order of the promises, whichever settled first
PromiseAll(settled, arrived) == settled

\* the oracle answers the call of batch b with rankings: processBatch returns
\* (lines 206-231 and 659-666)
BatchAnswered(b, rankings) ==
    /\ pc = "scoring"
    /\ b \in InFlight
    /\ batchState' = [batchState EXCEPT ![b] = "ok"]
    /\ batchOut' = [batchOut EXCEPT ![b] =
                      IF rev = 1 THEN MapRankingsToBatch(batches[b], rankings)
                      ELSE rankings]
    /\ arrivals' = Append(arrivals, b)
    /\ UNCHANGED retrieveVars
    /\ UNCHANGED <<rev, pc, clock, constrained, batches, allBatchResults, results,
                   pErr, filterCalls, oracleCalls, scorePath>>

\* a scoring stage without the catch around processBatch and without the
\* outer catch: the failure of a batch reaches the caller
BatchFailedPropagates(b) ==
    /\ rev = 2
    /\ pc = "scoring"
    /\ b \in InFlight
    /\ batchState' = [batchState EXCEPT ![b] = "failed"]
    /\ pc' = "failed"
    /\ pErr' = PipelineError("oracle call failed")
    /\ arrivals' = Append(arrivals, b)
    /\ UNCHANGED retrieveVars
    /\ UNCHANGED <<rev, clock, constrained, batches, batchOut, allBatchResults,
                   results, filterCalls, oracleCalls, scorePath>>

\* the oracle call of batch b fails, second revision: the batch's promise
\* resolves to [] (lines 689-693)
BatchFailed(b) ==
    /\ rev = 2
    /\ pc = "scoring"
    /\ b \in InFlight
    /\ batchState' = [batchState EXCEPT ![b] = "failed"]
    /\ batchOut' = [batchOut EXCEPT ![b] = <<>>]
    /\ arrivals' = Append(arrivals, b)
    /\ UNCHANGED retrieveVars
    /\ UNCHANGED <<rev, pc, clock, constrained, batches, allBatchResults, results,
                   pErr, filterCalls, oracleCalls, scorePath>>

\* the oracle call of batch b fails, first revision: Promise.all rejects
\* (line 263), the catch of rerank returns the fallback list (lines 314-335)
\* and the pipeline returns it (lines 369-382)
BatchFailedRerank(b) ==
    /\ rev = 1
    /\ pc = "scoring"
    /\ b \in InFlight
    /\ batchState' = [batchState EXCEPT ![b] = "failed"]
    /\ scorePath' = "fallback"
    /\ results' = personalizedStories(rerankFallback(constrained), clock)
    /\ pc' = "done"
    /\ arrivals' = Append(arrivals, b)
    /\ UNCHANGED retrieveVars
    /\ UNCHANGED <<rev, clock, constrained, batches, batchOut, allBatchResults,
                   pErr, filterCalls, oracleCalls>>

\* rerank after `await Promise.all(batchPromises)` of a group whose batches
\* all returned (lines 263-265): the results are collected in batch order;
\* then the next group is dispatched, or the list is ranked and returned
\* (lines 279-312, 369-382)
GroupJoined ==
    /\ rev = 1
    /\ pc = "scoring"
    /\ InFlight = {}
    /\ LET joined == { b \in 1..Len(batches) : batchState[b] = "ok" }
           collected == Flat(PromiseAll([b \in 1..Len(batches) |->
                                            IF b \in joined THEN batchOut[b] ELSE <<>>],
                                         arrivals))
           group == NextGroup(batchState)
       IN /\ allBatchResults' = collected
          /\ IF group # {}
             THEN /\ batchState' = Dispatched(batchState, group)
                  /\ oracleCalls' = oracleCalls + Cardinality(group)
                  /\ UNCHANGED <<results, pc>>
             ELSE /\ results' = personalizedStories(rerankRanked(collected), clock)
                  /\ pc' = "done"
                  /\ UNCHANGED <<batchState, oracleCalls>>
    /\ UNCHANGED retrieveVars
    /\ UNCHANGED <<rev, clock, constrained, batches, batchOut, pErr, filterCalls,
                   scorePath, arrivals>>

\* calculateRelevanceScores after `await Promise.all(batchPromises)` (line
\* 696): every batch has settled; the rankings are merged, scored, sorted and
\* returned (lines 698-756, 825-836)
BatchesMerged ==
    /\ rev = 2
    /\ pc = "scoring"
    /\ InFlight = {}
    /\ results' = personalizedStories(
                    sortedStories(rResult, PromiseAll(batchOut, arrivals), clock), clock)
    /\ pc' = "done"
    /\ UNCHANGED retrieveVars
    /\ UNCHANGED <<rev, clock, constrained, batches, batchState, batchOut,
                   allBatchResults, pErr, filterCalls, oracleCalls, scorePath, arrivals>>

\* an exception inside the try block of calculateRelevanceScores, outside
\* processBatch (whose failures are caught at line 689): the catch of lines
\* 758-782 returns the similarity fallback.  No value of the declared types
\* makes lines 698-756 throw; the step stands for any unexpected exception.
ScoringThrew ==
    /\ rev = 2
    /\ pc = "scoring"
    /\ InFlight = {}
    /\ scorePath' = "fallback"
    /\ results' = personalizedStories(fallbackStories(rResult, clock), clock)
    /\ pc' = "done"
    /\ UNCHANGED retrieveVars
    /\ UNCHANGED <<rev, clock, constrained, batches, batchState, batchOut,
                   allBatchResults, pErr, filterCalls, oracleCalls, arrivals>>

(***************************************************************************)
(* Inputs of the pipeline model                                             *)
(***************************************************************************)
\* what the embedding oracle returns: a vector of the dimension of the stored
\* embeddings, one with a NaN component, one of another dimension
PipelineQueries == { <<Fin(1), Fin(1)>>, <<NaN, Fin(1)>>, <<Fin(1)>> }

PipelineEmbeddings ==
    { [type |-> "array", vals |-> <<Fin(1), Fin(1)>>],
      [type |-> "array", vals |-> <<Fin(1), Fin(0)>>],
      [type |-> "absent"] }

PipelineRow(id, publishedAt, embedding) ==
    [id |-> id, title |-> [j \in 1..id |-> "x"], source_name |-> "Blog",
     published_at |-> publishedAt, embedding |-> embedding]

PipelineRows ==
    { PipelineRow(id, p, e) : id \in Ids, p \in PublishedDays, e \in PipelineEmbeddings }

\* the store returns rows of one table: their ids differ
DistinctIds(rows) ==
    \A i, j \in 1..Len(rows) : i # j => rows[i].id # rows[j].id

SourceCycle == <<"Blog", "Wire", "Lab", "Journal">>

\* a long response: n rows of four sources, published within the last 15
\* days, all above the similarity threshold
LongRow(i) ==
    [id |-> 100 + i, title |-> [j \in 1..i |-> "x"],
     source_name |-> SourceCycle[(i % 4) + 1],
     published_at |-> 0 - (i % 15),
     embedding |-> [type |-> "array",
                    vals |-> IF i % 2 = 0 THEN <<Fin(1), Fin(1)>> ELSE <<Fin(1), Fin(0)>>]]
LongRows(n) == [i \in 1..n |-> LongRow(i)]
LongSizes == { LLM_BATCH_SIZE + 1, TOP_K_CANDIDATES + 1 }

PipelineResponses ==
    { rows \in SeqsUpTo(PipelineRows, MaxRows) : DistinctIds(rows) }
      \cup { LongRows(n) : n \in LongSizes }

\* the scores the oracle gives
Scores == { 0, 50, 100 }
\* an id the oracle invents: it is larger than the id of every story
UnknownId == 100 + TOP_K_CANDIDATES + 2

OracleItem(id, score) == [story_id |-> id, relevance_score |-> score]

\* an answer with one item per story of the batch
FlatAnswer(batch) == [k \in 1..Len(batch) |-> OracleItem(batch[k].id, 50)]
SpreadAnswer(batch) ==
    [k \in 1..Len(batch) |-> OracleItem(batch[k].id, (batch[k].id * 37) % 101)]

\* the ids the items of a freely chosen answer draw from: the first and the
\* last story of the batch, the first story of the other batches, an id of
\* no story
AnswerIds(b) ==
    { batches[b][1].id, batches[b][Len(batches[b])].id, UnknownId }
      \cup { batches[c][1].id : c \in (1..Len(batches)) \ {b} }

\* what the oracle may answer for batch b: short free answers (one item of
\* the highest score only when the request has several batches) and the two
\* complete answers
OracleAnswers(b) ==
    SeqsUpTo({ OracleItem(id, score) :
                 id \in AnswerIds(b),
                 score \in IF Len(batches) = 1 THEN Scores ELSE {100} },
             IF Len(batches) = 1 THEN MaxItems ELSE 1)
      \cup { FlatAnswer(batches[b]), SpreadAnswer(batches[b]) }

InitPipeline ==
    /\ rev \in {1, 2}
    /\ clock \in Clock
    /\ pc = "encode"
    /\ constrained = <<>>
    /\ batches = <<>>
    /\ batchState = <<>>
    /\ batchOut = <<>>
    /\ allBatchResults = <<>>
    /\ results = <<>>
    /\ pErr = NoError
    /\ filterCalls = 0
    /\ oracleCalls = 0
    /\ scorePath = "none"
    /\ arrivals = <<>>
    /\ RetrieveIdle
    /\ FilterIdle
    /\ DetIdle
    /\ RouteIdle

Retrieving == rev = 2 /\ pc = "retrieve"

NextPipeline ==
    \/ (\E embedding \in PipelineQueries : EmbeddingReturned(embedding))
         /\ UNCHANGED <<filterVars, detVars, routeVars>>
    \/ EmbeddingFailed /\ UNCHANGED <<filterVars, detVars, routeVars>>
    \/ (\E rows \in PipelineResponses : StoreReturnsDataOnce(rows))
         /\ UNCHANGED <<filterVars, detVars, routeVars>>
    \/ (\E errorCode \in ErrorCodes \cup {"thrown"} : StoreFailsOnce(errorCode))
         /\ UNCHANGED <<filterVars, detVars, routeVars>>
    \/ (\E rows \in PipelineResponses : Retrieving /\ StoreReturnsData(rows))
         /\ UNCHANGED <<filterVars, pipelineVars, detVars, routeVars>>
    \/ (\E errorCode \in ErrorCodes : Retrieving /\ StoreReturnsError(errorCode))
         /\ UNCHANGED <<filterVars, pipelineVars, detVars, routeVars>>
    \/ (Retrieving /\ StoreCallThrows) /\ UNCHANGED <<filterVars, pipelineVars, detVars, routeVars>>
    \/ AfterRetrieve /\ UNCHANGED <<filterVars, detVars, routeVars>>
    \/ Constrain /\ UNCHANGED <<filterVars, detVars, routeVars>>
    \/ StartScoring /\ UNCHANGED <<filterVars, detVars, routeVars>>
    \/ (\E b \in InFlight : \E rankings \in OracleAnswers(b) : BatchAnswered(b, rankings))
         /\ UNCHANGED <<filterVars, detVars, routeVars>>
    \/ (\E b \in InFlight : BatchFailed(b)) /\ UNCHANGED <<filterVars, detVars, routeVars>>
    \/ (\E b \in InFlight : BatchFailedRerank(b)) /\ UNCHANGED <<filterVars, detVars, routeVars>>
    \/ GroupJoined /\ UNCHANGED <<filterVars, detVars, routeVars>>
    \/ BatchesMerged /\ UNCHANGED <<filterVars, detVars, routeVars>>
    \/ ScoringThrew /\ UNCHANGED <<filterVars, detVars, routeVars>>

Spec == InitPipeline /\ [][NextPipeline]_vars

(***************************************************************************)
(* The scorers called directly with a list of any length                    *)
(***************************************************************************)
\* lengths of the list: one batch, two batches, and more batches of the
\* second revision than MAX_CONCURRENT_CALLS
ScorerSizes == { 1, LLM_BATCH_SIZE + 1, MAX_CONCURRENT_CALLS * LLM_BATCH_SIZE + 1 }

\* what the oracle answers in this model: nothing, or one item per story
ScorerAnswers(b) == { <<>>, FlatAnswer(batches[b]), SpreadAnswer(batches[b]) }

\* rerank(userPrefs, stories) or calculateRelevanceScores(userPrefs, stories)
\* is about to run on a list of n stories
\* clock readings of a direct call: the stories of the list are published
\* up to two weeks before day 0, so that the first reading lies before them
ScorerClocks == { 0 - FRESHNESS_DECAY_DAYS - 6 } \cup Clock

InitScorer ==
    /\ rev \in {1, 2}
    /\ clock \in ScorerClocks
    /\ pc = "dispatch"
    /\ \E n \in ScorerSizes :
         /\ constrained = IF rev = 1 THEN LongRows(n) ELSE <<>>
         /\ rResult = IF rev = 2
                      THEN storiesWithSimilarityMap(<<Fin(1), Fin(1)>>, LongRows(n))
                      ELSE <<>>
    /\ batches = <<>>
    /\ batchState = <<>>
    /\ batchOut = <<>>
    /\ allBatchResults = <<>>
    /\ results = <<>>
    /\ pErr = NoError
    /\ filterCalls = 0
    /\ oracleCalls = 0
    /\ scorePath = "none"
    /\ arrivals = <<>>
    /\ rQuery = <<>>
    /\ rLimit = 0
    /\ rAttempt = 0
    /\ rAnswers = <<>>
    /\ rLastError = "none"
    /\ rRows = <<>>
    /\ rScored = <<>>
    /\ rPc = "idle"
    /\ FilterIdle
    /\ DetIdle
    /\ RouteIdle

NextScorer ==
    \/ StartScoring /\ UNCHANGED <<filterVars, detVars, routeVars>>
    \/ (\E b \in InFlight : \E rankings \in ScorerAnswers(b) : BatchAnswered(b, rankings))
         /\ UNCHANGED <<filterVars, detVars, routeVars>>
    \/ (\E b \in InFlight : BatchFailed(b)) /\ UNCHANGED <<filterVars, detVars, routeVars>>
    \/ (\E b \in InFlight : BatchFailedRerank(b))
         /\ UNCHANGED <<filterVars, detVars, routeVars>>
    \/ GroupJoined /\ UNCHANGED <<filterVars, detVars, routeVars>>
    \/ BatchesMerged /\ UNCHANGED <<filterVars, detVars, routeVars>>
    \/ ScoringThrew /\ UNCHANGED <<filterVars, detVars, routeVars>>

SpecScorer == InitScorer /\ [][NextScorer]_vars

\* a scorer of two batches
InitTwoBatches ==
    /\ InitScorer
    /\ Len(constrained) + Len(rResult) = LLM_BATCH_SIZE + 1

\* the dispatch of lines 253-261 and 685-694 as a step of the scorer
Dispatch == StartScoring /\ UNCHANGED <<filterVars, detVars, routeVars>>

\* the scorer dispatches its calls whenever it can; the oracle is not obliged
\* to answer, and no line of processBatch (169-232, 622-667) puts a time
\* limit on its call
FairSpecScorer == InitTwoBatches /\ [][NextScorer]_vars /\ WF_vars(Dispatch)

(***************************************************************************)
(* Two runs on the same candidates and the same oracle scores               *)
(***************************************************************************)
DetIds == {1, 2, 3}
\* clock readings two weeks apart
DetClocks == {0, FRESHNESS_DECAY_DAYS}
DetScores == {50, 50 + RECENCY_BOOST_POINTS}

DetDocs == { PipelineRow(id, p, [type |-> "absent"]) : id \in DetIds, p \in PublishedDays }

\* the orders in which the oracle can list the items of its answer
Listings(items) ==
    { listing \in [1..Cardinality(items) -> items] :
        \A i, j \in 1..Cardinality(items) : i # j => listing[i] # listing[j] }

InitDeterminism ==
    /\ dStage \in {"filter", "score"}
    /\ \E docs \in SeqsUpTo(DetDocs, MaxDocs) :
         /\ DistinctIds(docs)
         /\ dDocs = docs
         /\ IF dStage = "filter"
            THEN dRankings = << <<>>, <<>> >>
            ELSE \E score \in [{ docs[k].id : k \in 1..Len(docs) } -> DetScores] :
                   LET items == { OracleItem(docs[k].id, score[docs[k].id]) :
                                    k \in 1..Len(docs) }
                   IN \E first \in Listings(items), second \in Listings(items) :
                        dRankings = <<first, second>>
    /\ dClock \in DetClocks \X DetClocks
    /\ dOut = << <<>>, <<>> >>
    /\ dPc = <<"start", "start">>
    /\ FilterIdle
    /\ RetrieveIdle
    /\ PipelineIdle
    /\ RouteIdle

\* run r executes Step 3 of the first revision (line 362)
RunFilter(r) ==
    /\ dStage = "filter"
    /\ dPc[r] = "start"
    /\ dOut' = [dOut EXCEPT ![r] = applyBusinessConstraints(dDocs, dClock[r])]
    /\ dPc' = [dPc EXCEPT ![r] = "done"]
    /\ UNCHANGED <<dStage, dDocs, dRankings, dClock>>

\* run r executes calculateRelevanceScores and the transformation of its
\* result (lines 822-836); the candidates fit in one batch
RunScorer(r) ==
    /\ dStage = "score"
    /\ dPc[r] = "start"
    /\ dOut' = [dOut EXCEPT ![r] =
                  personalizedStories(
                    sortedStories(dDocs,
                                  [b \in 1..Len(chunkArray(dDocs, LLM_BATCH_SIZE)) |->
                                     dRankings[r]],
                                  dClock[r]),
                    dClock[r])]
    /\ dPc' = [dPc EXCEPT ![r] = "done"]
    /\ UNCHANGED <<dStage, dDocs, dRankings, dClock>>

NextDeterminism ==
    \/ (\E r \in {1, 2} : RunFilter(r))
         /\ UNCHANGED <<filterVars, retrieveVars, pipelineVars, routeVars>>
    \/ (\E r \in {1, 2} : RunScorer(r))
         /\ UNCHANGED <<filterVars, retrieveVars, pipelineVars, routeVars>>

SpecDeterminism == InitDeterminism /\ [][NextDeterminism]_vars

(***************************************************************************)
(* POST /api/retrieve-feed (src/unnamed/part_004, lines 5-61)               *)
(***************************************************************************)
\* JSON values of a field, by type; strings are sequences of characters
Undefined == [type |-> "undefined"]
Null == [type |-> "null"]
Str(chars) == [type |-> "string", chars |-> chars]
Num(n) == [type |-> "number", n |-> n]
Arr(items) == [type |-> "array", items |-> items]

\* !value
Falsy(value) ==
    \/ value.type \in {"undefined", "null"}
    \/ value.type = "string" /\ value.chars = <<>>
    \/ value.type = "number" /\ value.n = 0

\* value.trim() throws a TypeError unless value is a string
TrimThrows(value) == value.type # "string"

\* value.length === 0
LengthIsZero(value) ==
    \/ value.type = "array" /\ Len(value.items) = 0
    \/ value.type = "string" /\ Len(value.chars) = 0

\* the fields the handler reads from the parsed body: a property of a
\* primitive is undefined, a property of null throws
Field(body, name) ==
    IF body.kind = "object" THEN body.fields[name] ELSE Undefined

\* the outcome of lines 10-15, evaluated left to right with short-circuit:
\* "invalid", "valid", or "throws"
Validate(body) ==
    LET role == Field(body, "role")
        interests == Field(body, "interests")
        projects == Field(body, "projects")
    IN IF body.kind = "null" THEN "throws"
       ELSE IF Falsy(role) THEN "invalid"
       ELSE IF TrimThrows(role) THEN "throws"
       ELSE IF trim(role.chars) = <<>> THEN "invalid"
       ELSE IF Falsy(interests) THEN "invalid"
       ELSE IF LengthIsZero(interests) THEN "invalid"
       ELSE IF Falsy(projects) THEN "invalid"
       ELSE IF TrimThrows(projects) THEN "throws"
       ELSE IF trim(projects.chars) = <<>> THEN "invalid"
       ELSE "valid"

\* the handler from its start to its first return or to the call of the
\* pipeline (lines 6-29, 45-59)
POST ==
    /\ hPc = "start"
    /\ IF hBody.kind = "unparseable" \/ Validate(hBody) = "throws"
       THEN /\ hStatus' = 500
            /\ hInvoked' = hInvoked
            /\ hPc' = "responded"
       ELSE IF Validate(hBody) = "invalid"
       THEN /\ hStatus' = 400
            /\ hInvoked' = hInvoked
            /\ hPc' = "responded"
       ELSE /\ hStatus' = hStatus
            /\ hInvoked' = hInvoked + 1
            /\ hPc' = "pipeline"
    /\ UNCHANGED hBody

\* retrievePersonalizedStories returns (lines 31-43)
PipelineReturned ==
    /\ hPc = "pipeline"
    /\ hStatus' = 200
    /\ hPc' = "responded"
    /\ UNCHANGED <<hBody, hInvoked>>

\* retrievePersonalizedStories throws (lines 45-59)
PipelineThrew ==
    /\ hPc = "pipeline"
    /\ hStatus' = 500
    /\ hPc' = "responded"
    /\ UNCHANGED <<hBody, hInvoked>>

RoleValues == { Undefined, Null, Str(<<>>), Str(<<" ">>), Str(<<"d", " ">>), Num(5) }
InterestsValues == { Undefined, Null, Arr(<<>>), Arr(<<"LLMs">>) }
ProjectsValues == { Undefined, Null, Str(<<>>), Str(<<" ", " ">>), Str(<<"p">>), Num(5) }

Bodies ==
    { [kind |-> "unparseable"], [kind |-> "null"], [kind |-> "number"] }
      \cup { [kind |-> "object",
              fields |-> [role |-> r, interests |-> i, projects |-> q]] :
               r \in RoleValues, i \in InterestsValues, q \in ProjectsValues }

InitRoute ==
    /\ hBody \in Bodies
    /\ hStatus = 0
    /\ hInvoked = 0
    /\ hPc = "start"
    /\ FilterIdle
    /\ RetrieveIdle
    /\ PipelineIdle
    /\ DetIdle

NextRoute ==
    \/ POST /\ UNCHANGED <<filterVars, retrieveVars, pipelineVars, detVars>>
    \/ PipelineReturned /\ UNCHANGED <<filterVars, retrieveVars, pipelineVars, detVars>>
    \/ PipelineThrew /\ UNCHANGED <<filterVars, retrieveVars, pipelineVars, detVars>>

SpecRoute == InitRoute /\ [][NextRoute]_vars

(***************************************************************************)
(* Properties of the Constraint Filter                                      *)
(***************************************************************************)
Indices(seq) == 1..Len(seq)
WithId(seq, id) == { i \in Indices(seq) : seq[i].id = id }
WithTitle(seq, t) == { i \in Indices(seq) : NormalizedTitle(seq[i]) = t }
\* the documents counted under one source name; an absent name counts
\* under the sentinel 'unknown'
WithSource(seq, name) ==
    { i \in Indices(seq) :
        \/ seq[i].source_name = name
        \/ (name = "unknown" /\ seq[i].source_name = "") }
SourceNamesOf(seq) ==
    { IF seq[i].source_name = "" THEN "unknown" ELSE seq[i].source_name :
        i \in Indices(seq) }

\* C3 as stated: whenever the input holds two documents with one id, or two
\* documents with one normalized title, the output holds exactly one document
\* with that id, respectively that normalized title.
C3_ExactlyOneSurvives ==
    fPc = "done" =>
      \A i, j \in Indices(fStories) :
        i < j =>
          /\ (fStories[i].id = fStories[j].id
                => Cardinality(WithId(fOut, fStories[i].id)) = 1)
          /\ (NormalizedTitle(fStories[i]) = NormalizedTitle(fStories[j])
                => Cardinality(WithTitle(fOut, NormalizedTitle(fStories[i]))) = 1)

\* the first input document with this id is not a title duplicate of an
\* earlier document and fewer than MAX_PER_SOURCE earlier documents share
\* its source
FirstWithIdIsClean(seq, k) ==
    /\ \A h \in 1..(k - 1) :
          /\ seq[h].id # seq[k].id
          /\ NormalizedTitle(seq[h]) # NormalizedTitle(seq[k])
    /\ Cardinality({ h \in 1..(k - 1) : h \in WithSource(seq, SourceName(seq[k])) })
          < MAX_PER_SOURCE
    /\ LowerSource(SourceName(seq[k])) \notin BLOCKLISTED_SOURCES

\* C3 as amended: the output never holds two documents with one id or one
\* normalized title; it holds exactly one when the first input document with
\* that id (that title) is not itself a duplicate, by title or by id, of an
\* earlier document and fewer than MAX_PER_SOURCE earlier documents share its
\* source.  Otherwise it may hold none.
C3_AtMostOneSurvives ==
    fPc = "done" =>
      /\ \A i \in Indices(fStories) :
            /\ Cardinality(WithId(fOut, fStories[i].id)) <= 1
            /\ Cardinality(WithTitle(fOut, NormalizedTitle(fStories[i]))) <= 1
      /\ \A k \in Indices(fStories) :
            FirstWithIdIsClean(fStories, k) =>
              /\ Cardinality(WithId(fOut, fStories[k].id)) = 1
              /\ Cardinality(WithTitle(fOut, NormalizedTitle(fStories[k]))) = 1

\* two input documents with different ids whose titles differ only in case and
\* outer white space, and one of them in the output
C3_Witness ==
    /\ fPc = "done"
    /\ \E i, j \in Indices(fStories) :
          /\ i < j
          /\ fStories[i].id # fStories[j].id
          /\ fStories[i].title # fStories[j].title
          /\ NormalizedTitle(fStories[i]) = NormalizedTitle(fStories[j])
          /\ Cardinality(WithTitle(fOut, NormalizedTitle(fStories[i]))) = 1
    /\ \E i, j \in Indices(fStories) :
          /\ i < j
          /\ fStories[i].id = fStories[j].id
          /\ Cardinality(WithId(fOut, fStories[i].id)) = 1

\* C4: for every source name s, absent names counted under 'unknown', the
\* output holds at most MAX_PER_SOURCE documents of source s.
C4_DiversityCap ==
    fPc = "done" =>
      \A name \in SourceNamesOf(fStories) :
        Cardinality(WithSource(fOut, name)) <= MAX_PER_SOURCE

\* more than MAX_PER_SOURCE input documents of one source, named and unnamed
\* ones together, and exactly MAX_PER_SOURCE of them in the output
C4_Witness ==
    /\ fPc = "done"
    /\ Cardinality(WithSource(fStories, "unknown")) > MAX_PER_SOURCE
    /\ \E i \in Indices(fStories) : fStories[i].source_name = ""
    /\ \E i \in Indices(fStories) : fStories[i].source_name = "unknown"
    /\ Cardinality(WithSource(fOut, "unknown")) = MAX_PER_SOURCE

\* C5: the filter applied to its own output, at the same clock reading,
\* returns that output: nothing is removed and nothing is reordered.
C5_Idempotent ==
    fPc = "done" => applyBusinessConstraints(fOut, fNow) = fOut

\* a first pass that removed documents and reordered the rest
C5_Witness ==
    /\ fPc = "done"
    /\ Len(fOut) >= 2
    /\ Len(fOut) < Len(fStories)
    /\ fOut # filteredStories(fStories)
    /\ \E i \in 1..(Len(fOut) - 1) : Freshness(fOut[i], fNow) = Freshness(fOut[i + 1], fNow)

(***************************************************************************)
(* Properties of retrieveCandidateStories                                   *)
(***************************************************************************)
\* the numeric vector a row's embedding stands for, when it has one
ParsedEmbedding(story) ==
    IF story.embedding.type = "string"
    THEN [i \in 1..Len(story.embedding.pieces) |-> parseFloat(story.embedding.pieces[i])]
    ELSE IF story.embedding.type = "array" THEN story.embedding.vals
    ELSE <<>>

\* the embedding is missing, unparseable, of another dimensionality than
\* the query vector, or has a component that is not finite
CorruptEmbedding(story, queryVector) ==
    \/ story.embedding.type \notin {"string", "array"}
    \/ Len(ParsedEmbedding(story)) # Len(queryVector)
    \/ \E i \in 1..Len(ParsedEmbedding(story)) : ParsedEmbedding(story)[i].kind # "fin"

\* C8 as stated: after a store call that succeeded, every row with a corrupt
\* embedding has similarity score 0, every other row has its clamped cosine
\* similarity, and the function returned the threshold survivors of all rows.
C8_CorruptRowsScoreZero ==
    rPc = "returned" =>
      /\ Len(rScored) = Len(rRows)
      /\ \A i \in 1..Len(rRows) :
           IF CorruptEmbedding(rRows[i], rQuery)
           THEN rScored[i].similarity_score = Fin(0)
           ELSE rScored[i].similarity_score =
                  ClampSimilarity(calculateCosineSimilarity(rQuery, ParsedEmbedding(rRows[i])))
      /\ rResult = ThresholdSurvivors(rScored, TOP_K_CANDIDATES)

\* C9 as stated: a store call is followed by another one only when it was
\* answered with the timeout error 57014, and after an answer of any other
\* error class the function has failed.
C9_OnlyTimeoutIsRetried ==
    /\ \A k \in 1..(Len(rAnswers) - 1) : rAnswers[k] = "57014"
    /\ (rAnswers # <<>> /\ rAnswers[Len(rAnswers)] \notin {"data", "57014"})
         => rPc = "failed"

C10_Bounded ==
    /\ Len(rAnswers) <= 2
    /\ \A k \in 1..(Len(rAnswers) - 1) : rAnswers[k] # "data"
    /\ rPc = "returned" => (rAnswers # <<>> /\ rAnswers[Len(rAnswers)] = "data")
    /\ rPc = "failed" =>
         /\ Len(rAnswers) = 2
         /\ \A k \in 1..Len(rAnswers) : rAnswers[k] # "data"
    /\ rPc = "loop" => Len(rAnswers) < 2

AllBatchesFailed ==
    /\ batchState # <<>>
    /\ \A b \in 1..Len(batchState) : batchState[b] = "failed"

\* C1: a run that returns normally returns at most FINAL_RESULTS_LIMIT
\* results and their relevance_score never increases from one result to the
\* next, in both revisions, on the normal and on the fallback scoring path.
C1_BoundedAndSorted ==
    pc = "done" =>
      /\ Len(results) <= FINAL_RESULTS_LIMIT
      /\ \A k \in 1..(Len(results) - 1) :
            results[k].relevance_score >= results[k + 1].relevance_score

\* more candidates than the limit were scored by the oracle with different
\* scores and the run returned a full list
C1_Witness ==
    /\ pc = "done"
    /\ rev = 2
    /\ scorePath = "normal"
    /\ Len(rResult) > FINAL_RESULTS_LIMIT
    /\ Len(results) = FINAL_RESULTS_LIMIT
    /\ results[1].relevance_score > results[FINAL_RESULTS_LIMIT].relevance_score

\* C2 as stated: when every processBatch call of calculateRelevanceScores
\* failed and the candidate list was not empty, the run has returned a list
\* that is not empty, with every relevance_score in 1..100.
C2_DegradationSafety ==
    (rev = 2 /\ pc = "done" /\ Len(rResult) > 0 /\ AllBatchesFailed) =>
      /\ pErr = NoError
      /\ results # <<>>
      /\ \A k \in 1..Len(results) : results[k].relevance_score \in 1..100

\* C7: when retrieval succeeded with no candidate the run returns the empty
\* sequence without an error, and neither applyBusinessConstraints nor the
\* scoring oracle was called.
C7_EmptyIsNormal ==
    (rPc = "returned" /\ rResult = <<>>) =>
      /\ pc \in {"retrieve", "done"}
      /\ pErr = NoError
      /\ filterCalls = 0
      /\ oracleCalls = 0
      /\ pc = "done" => results = <<>>

\* the store returned no candidate and the run has returned
C7_Witness ==
    /\ pc = "done"
    /\ rPc = "returned"
    /\ rResult = <<>>
    /\ results = <<>>

(***************************************************************************)
(* Properties of two runs                                                   *)
(***************************************************************************)
\* the documents of a returned list, in order
OrderOf(list) ==
    [k \in 1..Len(list) |-> IF "story" \in DOMAIN list[k] THEN list[k].story.id
                            ELSE list[k].id]

BothDone == dPc = <<"done", "done">>

\* C6 as stated: two runs on the same candidates and the same oracle scores
\* return the same documents in the same order, whatever clock reading each
\* run has.
C6_SameOrderAnyClock ==
    BothDone => OrderOf(dOut[1]) = OrderOf(dOut[2])

\* C6, amended: two runs on the same candidates and the same oracle scores
\* that execute at the same clock reading return the same documents in the
\* same order, in whatever order the oracle lists its rankings.
C6_SameOrderSameClock ==
    (BothDone /\ dClock[1] = dClock[2]) => OrderOf(dOut[1]) = OrderOf(dOut[2])

\* two runs at the same clock reading whose oracle listed the rankings in
\* different orders, with two results of equal final score
C6_Witness ==
    /\ BothDone
    /\ dStage = "score"
    /\ dClock[1] = dClock[2]
    /\ dRankings[1] # dRankings[2]
    /\ Len(dOut[1]) >= 2
    /\ dOut[1][1].relevance_score = dOut[1][2].relevance_score

(***************************************************************************)
(* More properties of retrieveCandidateStories                              *)
(***************************************************************************)
\* subsequence: every element of short, in order, among the elements of long
RECURSIVE IsSubsequence(_, _)
IsSubsequence(short, long) ==
    IF short = <<>> THEN TRUE
    ELSE IF long = <<>> THEN FALSE
    ELSE IF Head(short) = Head(long) THEN IsSubsequence(Tail(short), Tail(long))
    ELSE IsSubsequence(short, Tail(long))

\* C11: retrieveCandidateStories returns at most `limit` documents, each a
\* scored row of the store's response, each with a similarity that is a
\* number, at least MATCH_THRESHOLD and at most 1.
C11_ThresholdAndLimit ==
    rPc = "returned" =>
      /\ Len(rResult) <= rLimit
      /\ IsSubsequence(rResult, rScored)
      /\ \A k \in 1..Len(rResult) :
            /\ rResult[k].similarity_score.kind = "fin"
            /\ rResult[k].similarity_score.v >= MATCH_THRESHOLD
            /\ rResult[k].similarity_score.v <= SIM_ONE

\* the response had more rows above the threshold than the limit and the
\* function returned `limit` documents
C11_Witness ==
    /\ rPc = "returned"
    /\ rLimit >= 1
    /\ Len(rResult) = rLimit
    /\ Cardinality({ i \in 1..Len(rScored) : PassesThreshold(rScored[i]) }) > rLimit

(***************************************************************************)
(* More properties of the pipeline                                          *)
(***************************************************************************)
\* C12 as stated: retrieval starts only with the encoded query, the
\* Constraint Filter is applied only to the list retrieval returned, and the
\* scoring oracle is called only on candidates that passed through the
\* Constraint Filter.
C12_StageOrder ==
    /\ rPc # "idle" => (rQuery # <<>> /\ pc # "encode")
    /\ filterCalls > 0 => (rPc = "returned" /\ pc \notin {"encode", "retrieve"})
    /\ oracleCalls > 0 =>
         /\ filterCalls = 1
         /\ Flat(batches) =
              SliceTo(applyBusinessConstraints(rResult, clock), LLM_RANKING_LIMIT)

\* C13: when generateUserEmbedding or retrieveCandidateStories failed, the
\* run has ended with one error that carries the message of the failed stage,
\* it returned nothing, and neither the Constraint Filter nor the scorer ran.
C13_UpstreamFailureWrapped ==
    /\ rPc = "failed" => pc \in {"retrieve", "failed"}
    /\ pErr # NoError => pc = "failed"
    /\ pc = "failed" =>
         /\ pErr # NoError
         /\ pErr.message = "Failed to retrieve personalized stories"
         /\ pErr.cause =
              IF rPc = "idle" THEN "Failed to generate user embedding"
              ELSE IF rev = 1 THEN "Failed to retrieve candidate stories"
              ELSE "Failed to retrieve candidate stories after retries"
         /\ rPc \in {"idle", "failed"}
         /\ results = <<>>
         /\ constrained = <<>>
         /\ batches = <<>>
         /\ filterCalls = 0
         /\ oracleCalls = 0

\* both store calls of the second revision failed and the run raised
C13_Witness ==
    /\ pc = "failed"
    /\ rev = 2
    /\ rPc = "failed"
    /\ Len(rAnswers) = MAX_RETRIES
    /\ pErr.cause = "Failed to retrieve candidate stories after retries"

SomeBatchFailed == \E b \in 1..Len(batchState) : batchState[b] = "failed"
SomeBatchOk == \E b \in 1..Len(batchState) : batchState[b] = "ok"

\* C14: after the failure of any scoring batch call the run raises no error:
\* rerank has returned its fallback list, and calculateRelevanceScores goes
\* on to its return.
C14_ScoringFailuresContained ==
    /\ oracleCalls > 0 => (pc \in {"scoring", "done"} /\ pErr = NoError)
    /\ (SomeBatchFailed /\ rev = 1) => (pc = "done" /\ scorePath = "fallback")
    /\ (SomeBatchFailed /\ rev = 2) => pc \in {"scoring", "done"}

\* a run of the second revision in which one batch failed and another one
\* succeeded has returned
C14_Witness ==
    /\ pc = "done"
    /\ rev = 2
    /\ SomeBatchFailed
    /\ SomeBatchOk
    /\ pErr = NoError

(***************************************************************************)
(* Properties of POST /api/retrieve-feed                                    *)
(***************************************************************************)
\* a field that is missing: absent or null
Missing(value) == value.type \in {"undefined", "null"}
\* a text that is blank: empty or only white space
Blank(value) == value.type = "string" /\ trim(value.chars) = <<>>

\* the body has no usable role, interests or projects
Incomplete(body) ==
    /\ body.kind # "unparseable"
    /\ \/ Missing(Field(body, "role")) \/ Blank(Field(body, "role"))
       \/ Missing(Field(body, "interests"))
       \/ (Field(body, "interests").type = "array" /\ Field(body, "interests").items = <<>>)
       \/ Missing(Field(body, "projects")) \/ Blank(Field(body, "projects"))

\* C15 as stated: a body whose role is missing or blank, whose interests are
\* missing or empty, or whose projects are missing or blank is answered with
\* status 400 and retrievePersonalizedStories is not called.
C15_IncompleteRejected ==
    (hPc = "responded" /\ Incomplete(hBody)) => (hStatus = 400 /\ hInvoked = 0)

(***************************************************************************)
(* Properties of the scoring stage                                          *)
(***************************************************************************)
\* the results returned for the story with this id
ResultsFor(id) == { k \in 1..Len(results) : results[k].story.id = id }

\* the ids that a batch that succeeded has scored
ScoredBy(b) ==
    IF rev = 1
    THEN { batchOut[b][i].story.id : i \in 1..Len(batchOut[b]) }
    ELSE { batchOut[b][i].story_id : i \in 1..Len(batchOut[b]) }

\* nothing but oracle calls failed in the scoring stage: the catch of lines
\* 758-782 is entered only by an exception outside processBatch
OnlyBatchesFailed == ~(rev = 2 /\ scorePath = "fallback")

\* C16 as stated: when a run has returned after at least one batch failed and
\* at least one succeeded, the scoring stage took its normal path, the failed
\* batches contributed nothing, and (when the list was not cut to the final
\* size) every story scored by a batch that succeeded is in the output, in
\* the second revision with the oracle's score plus the recency boost.
C16_BatchIsolation ==
    (pc = "done" /\ SomeBatchFailed /\ SomeBatchOk /\ OnlyBatchesFailed) =>
      /\ scorePath = "normal"
      /\ \A b \in 1..Len(batchState) : batchState[b] = "failed" => batchOut[b] = <<>>
      /\ Len(results) < FINAL_RESULTS_LIMIT =>
           \A b \in 1..Len(batchState) :
             batchState[b] = "ok" =>
               /\ \A id \in ScoredBy(b) :
                     MapGet(rResult, id) # 0 => ResultsFor(id) # {}
               /\ rev = 2 =>
                    \A i \in 1..Len(batchOut[b]) :
                      MapGet(rResult, batchOut[b][i].story_id) # 0 =>
                        \E k \in ResultsFor(batchOut[b][i].story_id) :
                          results[k].relevance_score =
                            ClampScore(batchOut[b][i].relevance_score
                                         + recencyBoost(results[k].story, clock))

\* no batch has settled yet
JustDispatched ==
    /\ pc = "scoring"
    /\ \A b \in 1..Len(batchState) : batchState[b] \in {"idle", "inflight"}

\* C17 as stated: at every instant of a scoring stage at most
\* MAX_CONCURRENT_CALLS oracle calls are in flight, for a list of any length;
\* and with two batches or more, two calls or more are in flight right after
\* the dispatch.
C17_BoundedConcurrency ==
    /\ Cardinality(InFlight) <= MAX_CONCURRENT_CALLS
    /\ (JustDispatched /\ Len(batches) >= 2) => Cardinality(InFlight) >= 2

\* the rankings calculateRelevanceScores merged for the story with this id
RankingsFor(id) ==
    { ranking \in { Flat(batchOut)[i] : i \in 1..Len(Flat(batchOut)) } :
        ranking.story_id = id }

\* C18 as stated: every result of calculateRelevanceScores has the score
\* clamp(s + bonus, 1, 100) for a score s the oracle gave to its story and an
\* integer bonus in 0..RECENCY_BOOST_POINTS, whatever the publication date,
\* with bonus 0 when the story is older than FRESHNESS_DECAY_DAYS.
C18_CompositeScore ==
    (rev = 2 /\ pc = "done" /\ scorePath = "normal") =>
      \A k \in 1..Len(results) :
        \E ranking \in RankingsFor(results[k].story.id) :
          \E bonus \in 0..RECENCY_BOOST_POINTS :
            /\ (clock - results[k].story.published_at > FRESHNESS_DECAY_DAYS) => bonus = 0
            /\ results[k].relevance_score =
                 ClampScore(ranking.relevance_score + bonus)

\* C19 as stated: in the returned list two results of equal relevance_score
\* are in ascending order of their ids, for both scorers on both paths.
C19_TiesByAscendingId ==
    pc = "done" =>
      \A j, k \in 1..Len(results) :
        (j < k /\ results[j].relevance_score = results[k].relevance_score)
          => results[j].story.id <= results[k].story.id

\* C20 as stated: the returned list never holds two results for one story
\* id, also when the oracle named a story more than once.
C20_NoDuplicateResults ==
    pc = "done" =>
      \A j, k \in 1..Len(results) :
        j # k => results[j].story.id # results[k].story.id

(***************************************************************************)
(* Properties of generateUserEmbedding                                      *)
(***************************************************************************)
\* a vector of the right dimension without a NaN component
WellFormedVector(vector) ==
    /\ Len(vector) = EmbeddingDim
    /\ \A i \in 1..Len(vector) : ~IsNaN(vector[i])

\* C21 as stated: retrieval is started only with a well-formed query vector;
\* when the oracle call failed or returned a malformed vector the run has
\* failed with the encoding error and retrieval was not started.
C21_MalformedVectorRejected ==
    /\ rPc # "idle" => WellFormedVector(rQuery)
    /\ (pc = "failed" /\ rPc = "idle") =>
         pErr.cause = "Failed to generate user embedding"

(***************************************************************************)
(* Properties of the merge of the batches                                   *)
(***************************************************************************)
\* the scorer's output computed from what each batch returned, taken in the
\* order of the batches
OutputInBatchOrder ==
    IF rev = 1
    THEN IF scorePath = "fallback" THEN rerankFallback(constrained)
         ELSE rerankRanked(Flat(batchOut))
    ELSE IF scorePath = "fallback" THEN fallbackStories(rResult, clock)
         ELSE sortedStories(rResult, batchOut, clock)

\* C22: the returned list is the one computed from the batches' answers in
\* batch order, in whatever order the calls of the batches completed.
C22_CompletionOrderIrrelevant ==
    (pc = "done" /\ batches # <<>>) =>
      results = personalizedStories(OutputInBatchOrder, clock)

\* the call of a later batch completed before the call of an earlier one, two
\* stories of different batches got the same score from the oracle, and
\* rerank returned on its normal path
C22_Witness ==
    /\ pc = "done"
    /\ rev = 1
    /\ scorePath = "normal"
    /\ Len(arrivals) >= 2
    /\ arrivals[1] > arrivals[2]
    /\ batchOut[1] # <<>>
    /\ batchOut[2] # <<>>
    /\ batchOut[1][1].original_relevance_score = batchOut[2][1].original_relevance_score
    /\ Len(results) >= 2

\* C23: in a scoring stage that has dispatched its calls, eventually no call
\* is pending any more (an unanswered call is given up like a failed one) or
\* the stage has returned: a call that is never answered does not keep
\* `await Promise.all` waiting for ever.
C23_UnansweredBatchDoesNotBlock ==
    (pc = "scoring") ~> (pc = "done" \/ InFlight = {})

\* C24 as stated: an item of an oracle answer whose story_id is not the id of
\* a story of the batch sent in that call produces no result: every returned
\* story was named by the answer to the call of its own batch.
C24_ForeignItemsDiscarded ==
    (pc = "done" /\ scorePath = "normal") =>
      \A k \in 1..Len(results) :
        \E b \in 1..Len(batches) :
          /\ MapGet(batches[b], results[k].story.id) # 0
          /\ results[k].story.id \in ScoredBy(b)

(***************************************************************************)
(* Properties of the fallback                                               *)
(***************************************************************************)
\* the candidates handed to the scorer
Candidates == IF rev = 1 THEN constrained ELSE rResult

\* the fallback list: at most N results and at most one per candidate, each
\* with a score between 1 and 100, the scores never growing with the position
FallbackWellFormed ==
    /\ Len(results) <= FINAL_RESULTS_LIMIT
    /\ Len(results) <= Len(Candidates)
    /\ \A k \in 1..Len(results) :
         /\ results[k].relevance_score \in 1..RELATIVE_SCORE_MAX
         /\ MapGet(Candidates, results[k].story.id) # 0
    /\ \A j, k \in 1..Len(results) :
         j < k => results[j].relevance_score >= results[k].relevance_score

\* C25: once the scorer has entered its fallback it stays there, dispatches
\* no further oracle call and its list does not change; the list it returns
\* is well-formed.
C25_FallbackTerminal ==
    /\ [](scorePath = "fallback" => (pc = "done" /\ FallbackWellFormed))
    /\ [][scorePath = "fallback" =>
            /\ scorePath' = "fallback"
            /\ oracleCalls' = oracleCalls
            /\ batchState' = batchState
            /\ results' = results]_vars

\* rerank fell back after calls were dispatched and returned several results
\* whose scores fall from the first to the last
C25_Witness ==
    /\ scorePath = "fallback"
    /\ pc = "done"
    /\ oracleCalls > 1
    /\ Len(results) > 2
    /\ results[1].relevance_score > results[Len(results)].relevance_score

(***************************************************************************)
(* Properties of the order of the Constraint Filter                         *)
(***************************************************************************)
\* the place in the input of a document of the output: its first occurrence
InputPlace(story) ==
    CHOOSE p \in Indices(fStories) :
      /\ fStories[p] = story
      /\ \A h \in 1..(p - 1) : fStories[h] # story

\* C26 as stated: no document of the input that precedes a document of the
\* output has the id or the normalized title of that document.
C26_FirstSeenWins ==
    fPc = "done" =>
      \A k \in Indices(fOut) :
        \A h \in 1..(InputPlace(fOut[k]) - 1) :
          /\ fStories[h].id # fOut[k].id
          /\ NormalizedTitle(fStories[h]) # NormalizedTitle(fOut[k])

\* the document at place h of the input is the first one with its id
FirstOfItsId(h) == \A g \in 1..(h - 1) : fStories[g].id # fStories[h].id

\* C26 as amended: no document of the input that precedes a document of the
\* output has its id, and none that is the first of its own id has its
\* normalized title.  A document dropped as an id duplicate does not record
\* its title.
C26_FirstRecordedWins ==
    fPc = "done" =>
      \A k \in Indices(fOut) :
        \A h \in 1..(InputPlace(fOut[k]) - 1) :
          /\ fStories[h].id # fOut[k].id
          /\ FirstOfItsId(h) => NormalizedTitle(fStories[h]) # NormalizedTitle(fOut[k])

\* an input with an id duplicate and a title duplicate of different ids, of
\* which the earlier documents are in the output and the later ones are not
C26_Witness ==
    /\ fPc = "done"
    /\ \E i, j \in Indices(fStories) :
          /\ i < j
          /\ fStories[i].id = fStories[j].id
          /\ fStories[i] # fStories[j]
          /\ \E k \in Indices(fOut) : fOut[k] = fStories[i]
          /\ \A k \in Indices(fOut) : fOut[k] # fStories[j]
    /\ \E i, j \in Indices(fStories) :
          /\ i < j
          /\ fStories[i].id # fStories[j].id
          /\ NormalizedTitle(fStories[i]) = NormalizedTitle(fStories[j])
          /\ \E k \in Indices(fOut) : fOut[k] = fStories[i]
          /\ \A k \in Indices(fOut) : fOut[k] # fStories[j]

\* C27: two documents of the output with equal freshness scores are in the
\* order they had in the input.
C27_StableOnTies ==
    fPc = "done" =>
      \A j, k \in Indices(fOut) :
        (j < k /\ Freshness(fOut[j], fNow) = Freshness(fOut[k], fNow))
          => InputPlace(fOut[j]) < InputPlace(fOut[k])

\* the sort moved a document forward, and the output holds two documents of
\* equal freshness, one pair published on the same day and one pair published
\* on different days outside the decay window
C27_Witness ==
    /\ fPc = "done"
    /\ fOut # filteredStories(fStories)
    /\ \E j, k \in Indices(fOut) :
          /\ j < k
          /\ fOut[j].published_at = fOut[k].published_at
    /\ \E j, k \in Indices(fOut) :
          /\ j < k
          /\ fOut[j].published_at # fOut[k].published_at
          /\ Freshness(fOut[j], fNow) = Freshness(fOut[k], fNow)

\* the inputs the filter is applied to
FilterInputs ==
    { IF fillerFirst THEN Filler(n, "unknown") \o free ELSE free \o Filler(n, "unknown") :
        free \in SeqsUpTo(FreeStories, MaxFree), n \in FillerLengths,
        fillerFirst \in BOOLEAN }

\* in this list a document stands before a document with a higher freshness score
StalerFirst(stories, now) ==
    \E j, k \in Indices(stories) :
      j < k /\ Freshness(stories[j], now) < Freshness(stories[k], now)

\* C28 as stated: the reorder is partial, two surviving documents with
\* different freshness scores are not always placed fresher-first: at the
\* clock reading of the run, the output for some input holds a document
\* before a fresher one.
C28_NotAlwaysFresherFirst ==
    \E stories \in FilterInputs :
      StalerFirst(applyBusinessConstraints(stories, fNow), fNow)

\* what the comparator of line 151 gives instead: in every output every
\* document stands before the documents with a lower freshness score
AlwaysFresherFirst == fPc = "done" => ~StalerFirst(fOut, fNow)

(***************************************************************************)
(* Properties of the relative scores of rerank                              *)
(***************************************************************************)
\* C29 as stated: a list of at least two results returned by rerank has the
\* score RELATIVE_SCORE_MAX at its first and RELATIVE_SCORE_MIN at its last
\* position, and on the fallback path as on the normal path the result at
\* each position has the score of that position in a list of this length.
C29_RelativeScoring ==
    (rev = 1 /\ pc = "done") =>
      /\ Len(results) >= 2 =>
           /\ results[1].relevance_score = RELATIVE_SCORE_MAX
           /\ scorePath = "normal" =>
                results[Len(results)].relevance_score = RELATIVE_SCORE_MIN
      /\ \A k \in 1..Len(results) :
           results[k].relevance_score = relativeScore(k - 1, Max(1, Len(results) - 1))

(***************************************************************************)
(* Properties of the results against the candidates                         *)
(***************************************************************************)
\* C30 as stated: every result of a scoring call is a story of the candidate
\* list passed to the call, and the call returns no more results than it was
\* passed candidates.
C30_OnlyCandidates ==
    (pc = "done" /\ scorePath # "none") =>
      /\ \A k \in 1..Len(results) :
           /\ MapGet(Candidates, results[k].story.id) # 0
           /\ results[k].story = Candidates[MapGet(Candidates, results[k].story.id)]
      /\ Len(results) <= Len(Candidates)

====
